---- MODULE Spec2Model ----
(***************************************************************************)
(* Navigation engine of git-whence (src/src/terminal.rs): the App state,   *)
(* one action per arm of handle_input, wrapped the way run_app wraps it    *)
(* (an Err becomes the popup, Ok(false) ends the session); specification   *)
(* Spec.  The porcelain parser (src/src/git_blame_porcelain.rs), one       *)
(* action per step of the loop of parse_blame_porcelain; specification     *)
(* SpecParse.                                                              *)
(*                                                                         *)
(* Option<T> is a sequence of length at most one: None is <<>> and         *)
(* Some(x) is <<x>>.  Strings that the program edits or searches (search   *)
(* query, line-number buffer, rendered code line) are sequences of         *)
(* one-character strings.                                                  *)
(***************************************************************************)
EXTENDS Integers, Sequences, FiniteSets, TLC

VARIABLES
    blame,                \* App.blame: Vec<BlameHunk>, one entry per line
    selected,             \* App.blame_state.selected(): Option<usize>
    commit_stack,         \* App.commit_stack: Vec<CommitPath>
    right_panel,          \* App.right_panel: Option<Text>
    line_history_scroll,  \* App.line_history_scroll: u16
    popup,                \* App.popup: Option<Text>
    search,               \* App.search: Option<Search>
    line_number,          \* App.line_number: Option<String>
    pc,                   \* where the process is: new, running, quit, aborted, panicked
    build,                \* overflow checks of the build: debug panics, release wraps
    start,                \* the (commit, rel_path) App::new was called with
    committed,            \* history: the query of the last Commit in the search prompt
    origin,               \* history: the (commit, path) git::blame was last called with successfully
    last,                 \* history: the arm the last key took, and what its collaborators did
    input,                \* parse_blame_porcelain: the text it was called with
    remaining,            \* parse_blame_porcelain: the text not consumed yet
    hunks,                \* parse_blame_porcelain: Vec<BlameLine> so far
    commits,              \* parse_blame_porcelain: HashMap from commit id to its Rc
    rcs,                  \* the CommitInfo allocations made by Rc::new, in order
    locals,               \* parse_blame_porcelain: header, commit_info and code of the turn
    parse_pc              \* parse_blame_porcelain: idle, while, entry, code, group, ok, err, panic

vars == <<blame, selected, commit_stack, right_panel, line_history_scroll,
          popup, search, line_number, pc, build, start, committed, origin,
          last, input, remaining, hunks, commits, rcs, locals, parse_pc>>

\* the state of the parser
parser == <<input, remaining, hunks, commits, rcs, locals, parse_pc>>

app == <<blame, selected, commit_stack, right_panel, line_history_scroll,
         popup, search, line_number>>

None == <<>>
Some(x) == <<x>>

(***************************************************************************)
(* Bounds of the model.                                                    *)
(***************************************************************************)
\* longest search query typed
MaxQuery == 1
\* most digits typed into the line-number buffer
MaxDigits == 1
\* how far an out-of-range selection may walk over an empty list
MaxOob == 2

\* usize::MAX, at the width of the checker's integers
UsizeMax == 2147483647

Min(a, b) == IF a < b THEN a ELSE b
Max(a, b) == IF a > b THEN a ELSE b

(***************************************************************************)
(* The repository the session runs against: five commits on one line of    *)
(* history, the file renamed from "old" to "new" in c3.                    *)
(*   c0 (root)  old = a                                                    *)
(*   c1         old emptied                                                *)
(*   c2         old = ab, b                                                *)
(*   c3         old renamed to new, line a appended                        *)
(*   c4         new: line bb appended                                      *)
(***************************************************************************)
Commits == {"c0", "c1", "c2", "c3", "c4"}
Paths == {"old", "new"}

\* Commit::parent_id(0): None for the root commit
ParentOf(c) ==
    CASE c = "c4" -> Some("c3")
      [] c = "c3" -> Some("c2")
      [] c = "c2" -> Some("c1")
      [] c = "c1" -> Some("c0")
      [] OTHER -> None

\* one BlameHunk: the commit, the commit-info path, the rendered code line
Hunk(c, p, text) == [commit |-> c, path |-> p, line |-> text]

\* git blame --porcelain <path> <commit>, parsed and flattened to one entry
\* per line: None when git exits non-zero (no such path in that commit)
RepoBlame(path, commit) ==
    CASE path = "old" /\ commit = "c0" ->
            Some(<<Hunk("c0", Some("old"), <<"a">>)>>)
      [] path = "old" /\ commit = "c1" ->
            Some(<<>>)
      [] path = "old" /\ commit = "c2" ->
            Some(<<Hunk("c2", Some("old"), <<"a", "b">>),
                   Hunk("c2", Some("old"), <<"b">>)>>)
      [] path = "new" /\ commit = "c3" ->
            Some(<<Hunk("c2", Some("old"), <<"a", "b">>),
                   Hunk("c2", Some("old"), <<"b">>),
                   Hunk("c3", Some("new"), <<"a">>)>>)
      [] path = "new" /\ commit = "c4" ->
            Some(<<Hunk("c2", Some("old"), <<"a", "b">>),
                   Hunk("c2", Some("old"), <<"b">>),
                   Hunk("c3", Some("new"), <<"a">>),
                   Hunk("c4", None, <<"b", "b">>)>>)
      [] OTHER -> None

\* heights of the terminal, and of the text git::show / git::log_follow return
TermHeights == {1, 4}
PanelHeights == {3, 65536}

(***************************************************************************)
(* Keys.                                                                   *)
(***************************************************************************)
QueryChars == {"b"}
DigitChars == {"0", "2"}
CommandChars == {"j", "k", "d", "u", "g", "G", ":", "/", "n", "N",
                 "w", "b", "B", "h", "q", "c"}
Chars == CommandChars \cup QueryChars \cup DigitChars
SpecialCodes == {"Down", "Up", "PageDown", "PageUp", "Home", "End",
                 "Enter", "Esc", "Backspace", "Tab"}

Key(code, ctrl) == [code |-> code, ctrl |-> ctrl]
Keys == {Key(c, FALSE) : c \in Chars \cup SpecialCodes}
        \cup {Key("c", TRUE), Key("u", TRUE)}

IsChar(key) == key.code \in Chars
\* KeyEvent { code: Char(c), modifiers: KeyModifiers::CONTROL, .. }
IsCtrl(key, c) == key.code = c /\ key.ctrl
\* KeyEvent { code: KeyCode::Esc, .. } | Ctrl-c
IsCancel(key) == key.code = "Esc" \/ IsCtrl(key, "c")

\* event::read() can deliver a key with one of these codes
Pressed(codes) == {key \in Keys : key.code \in codes} # {}

(***************************************************************************)
(* What the last key did.                                                  *)
(***************************************************************************)
\* intent: the arm of handle_input the key took; outcome: ok, none (the arm's
\* condition was false), panel (it scrolled the panel), err, quit or panic;
\* called: git::blame was run; stack0: the checkpoint stack the key found;
\* chained: the key before this one was a successful re-blame
Last(intent, outcome, called) ==
    [intent |-> intent, outcome |-> outcome, called |-> called,
     stack0 |-> commit_stack,
     chained |-> (last.intent = "ReblameSelected" /\ last.outcome = "ok")]

\* no parse is running
ParserIdle ==
    /\ input = <<>>
    /\ remaining = <<>>
    /\ hunks = <<>>
    /\ commits = <<>>
    /\ rcs = <<>>
    /\ locals = <<>>
    /\ parse_pc = "idle"

\* App::new
Init ==
    /\ ParserIdle
    /\ blame = <<>>
    /\ selected = None
    /\ start \in [commit : Commits, path : Paths]
    /\ commit_stack = <<start>>
    /\ right_panel = None
    /\ line_history_scroll = 0
    /\ popup = None
    /\ search = None
    /\ line_number = None
    /\ pc = "new"
    /\ build \in {"debug", "release"}
    /\ committed = None
    /\ origin = None
    /\ last = [intent |-> "None", outcome |-> "none", called |-> FALSE,
               stack0 |-> <<>>, chained |-> FALSE]

Top == commit_stack[Len(commit_stack)]

\* the caller of App::new loads the first blame before run_app; a failure
\* there ends the program before the session starts
Startup ==
    /\ pc = "new"
    /\ LET r == RepoBlame(Top.path, Top.commit) IN
          \/ /\ r # None
             /\ blame' = r[1]
             /\ origin' = Some(Top)
             /\ pc' = "running"
          \/ /\ r = None
             /\ pc' = "aborted"
             /\ UNCHANGED <<blame, origin>>
    /\ last' = Last("Startup", "none", TRUE)
    /\ UNCHANGED <<selected, commit_stack, right_panel, line_history_scroll,
                   popup, search, line_number, build, start, committed, parser>>

(***************************************************************************)
(* Dispatch of handle_input: the popup first, then the search being        *)
(* edited, then (only when there is no search at all) the line-number      *)
(* buffer, and the browsing keys otherwise.                                *)
(***************************************************************************)
PopupVisible == popup # None
SearchEditing == search # None /\ search[1].editing
LineNumberDispatch == search = None /\ line_number # None
Browsing == ~PopupVisible /\ ~SearchEditing /\ ~LineNumberDispatch

Running == pc = "running"

\* a panic ends the process
Panicked(intent, called) ==
    /\ pc' = "panicked"
    /\ last' = Last(intent, "panic", called)
    /\ UNCHANGED <<build, start, committed, parser>>

\* a panic before the arm assigned anything
Panic(intent) ==
    /\ Panicked(intent, FALSE)
    /\ UNCHANGED <<app, origin>>

\* a dismissal without the early return: the key goes on to the q arm
DismissPopupFallsThrough ==
    /\ Running
    /\ PopupVisible
    /\ Keys # {}
    /\ popup' = None
    /\ right_panel' = None
    /\ line_history_scroll' = 0
    /\ last' = Last("Dismiss", "ok", FALSE)
    /\ UNCHANGED <<blame, selected, commit_stack, search, line_number, pc,
                   build, start, committed, parser, origin>>

\* if app.popup.is_some() { app.popup = None; return Ok(true); }
DismissPopup ==
    /\ Running
    /\ PopupVisible
    /\ Keys # {}
    /\ popup' = None
    /\ last' = Last("Dismiss", "ok", FALSE)
    /\ UNCHANGED <<blame, selected, commit_stack, right_panel,
                   line_history_scroll, search, line_number, pc, build, start, committed, parser,
                   origin>>

(***************************************************************************)
(* handle_search.                                                          *)
(***************************************************************************)
\* str::contains
Contains(line, query) ==
    \E i \in 0..(Len(line) - Len(query)) :
        SubSeq(line, i + 1, i + Len(query)) = query

SetMin(S) == CHOOSE x \in S : \A y \in S : x <= y
SetMax(S) == CHOOSE x \in S : \A y \in S : x >= y

\* index + 1 overflows (forward), or blame[i] is out of bounds (backward)
HandleSearchPanics(bl, sel, forward) ==
    IF forward
    THEN build = "debug" /\ sel # None /\ sel[1] = UsizeMax
    ELSE sel # None /\ sel[1] >= 1 /\ sel[1] - 1 >= Len(bl)

\* the selection handle_search leaves
HandleSearch(bl, query, sel, forward) ==
    IF forward
    THEN LET first == IF sel = None THEN 0
                      ELSE IF sel[1] = UsizeMax THEN 0 ELSE sel[1] + 1
             hits == {i \in first..(Len(bl) - 1) : Contains(bl[i + 1].line, query)}
         IN IF hits = {} THEN sel ELSE Some(SetMin(hits))
    ELSE LET end == IF sel = None THEN 0 ELSE sel[1]
             hits == {i \in 0..(end - 1) : Contains(bl[i + 1].line, query)}
         IN IF hits = {} THEN sel ELSE Some(SetMax(hits))

(***************************************************************************)
(* The search being edited (terminal.rs 107-143).                          *)
(***************************************************************************)
SearchFrame ==
    UNCHANGED <<blame, commit_stack, right_panel, line_history_scroll,
                popup, line_number, pc, build, start, committed, parser, origin>>

SearchCancel ==
    /\ Running /\ ~PopupVisible /\ SearchEditing
    /\ {key \in Keys : IsCancel(key)} # {}
    /\ search' = None
    /\ last' = Last("Cancel", "ok", FALSE)
    /\ UNCHANGED selected
    /\ SearchFrame

SearchClear ==
    /\ Running /\ ~PopupVisible /\ SearchEditing
    /\ {key \in Keys : ~IsCancel(key) /\ IsCtrl(key, "u")} # {}
    /\ search' = Some([search[1] EXCEPT !.query = <<>>])
    /\ last' = Last("ClearBuffer", "ok", FALSE)
    /\ UNCHANGED selected
    /\ SearchFrame

SearchPush ==
    /\ Running /\ ~PopupVisible /\ SearchEditing
    /\ Len(search[1].query) < MaxQuery
    /\ \E key \in Keys :
          /\ ~IsCancel(key) /\ ~IsCtrl(key, "u") /\ IsChar(key)
          /\ key.code \in QueryChars
          /\ search' = Some([search[1] EXCEPT !.query = Append(@, key.code)])
    /\ last' = Last("AppendChar", "ok", FALSE)
    /\ UNCHANGED selected
    /\ SearchFrame

\* String::pop
Pop(s) == IF s = <<>> THEN s ELSE SubSeq(s, 1, Len(s) - 1)

SearchPop ==
    /\ Running /\ ~PopupVisible /\ SearchEditing
    /\ Pressed({"Backspace"})
    /\ search' = Some([search[1] EXCEPT !.query = Pop(@)])
    /\ last' = Last("Backspace", "ok", FALSE)
    /\ UNCHANGED selected
    /\ SearchFrame

\* an Enter that leaves the prompt by dropping the search
SearchCommitDropsQuery ==
    /\ Running /\ ~PopupVisible /\ SearchEditing
    /\ Pressed({"Enter"})
    /\ search' = None
    /\ selected' = HandleSearch(blame, search[1].query, selected, TRUE)
    /\ committed' = Some(search[1].query)
    /\ last' = Last("Commit", "ok", FALSE)
    /\ UNCHANGED <<blame, commit_stack, right_panel, line_history_scroll,
                   popup, line_number, pc, build, start, origin, parser>>

\* <enter>: search.editing = false; handle_search(app, true)
SearchCommit ==
    /\ Running /\ ~PopupVisible /\ SearchEditing
    /\ Pressed({"Enter"})
    /\ IF HandleSearchPanics(blame, selected, TRUE)
       THEN Panic("Commit")
       ELSE /\ search' = Some([search[1] EXCEPT !.editing = FALSE])
            /\ selected' = HandleSearch(blame, search[1].query, selected, TRUE)
            /\ committed' = Some(search[1].query)
            /\ last' = Last("Commit", "ok", FALSE)
            /\ UNCHANGED <<blame, commit_stack, right_panel,
                           line_history_scroll, popup, line_number, pc, build,
                           start, origin, parser>>

SearchIgnored ==
    /\ Running /\ ~PopupVisible /\ SearchEditing
    /\ {key \in Keys : /\ ~IsCancel(key) /\ ~IsChar(key)
                         /\ key.code \notin {"Backspace", "Enter"}} # {}
    /\ last' = Last("Ignored", "ok", FALSE)
    /\ UNCHANGED <<app, pc, build, start, committed, parser, origin>>

(***************************************************************************)
(* The line-number buffer (terminal.rs 144-181).                           *)
(***************************************************************************)
LineFrame ==
    UNCHANGED <<blame, commit_stack, right_panel, line_history_scroll,
                popup, search, pc, build, start, committed, parser, origin>>

LineCancel ==
    /\ Running /\ ~PopupVisible /\ LineNumberDispatch
    /\ {key \in Keys : IsCancel(key)} # {}
    /\ line_number' = None
    /\ last' = Last("Cancel", "ok", FALSE)
    /\ UNCHANGED selected
    /\ LineFrame

LineClear ==
    /\ Running /\ ~PopupVisible /\ LineNumberDispatch
    /\ {key \in Keys : ~IsCancel(key) /\ IsCtrl(key, "u")} # {}
    /\ line_number' = Some(<<>>)
    /\ last' = Last("ClearBuffer", "ok", FALSE)
    /\ UNCHANGED selected
    /\ LineFrame

\* if '0' <= *c && *c <= '9' { line_number.push(*c); }
LineDigit ==
    /\ Running /\ ~PopupVisible /\ LineNumberDispatch
    /\ Len(line_number[1]) < MaxDigits
    /\ \E key \in Keys :
          /\ ~IsCancel(key) /\ ~IsCtrl(key, "u")
          /\ key.code \in DigitChars
          /\ line_number' = Some(Append(line_number[1], key.code))
    /\ last' = Last("AppendChar", "ok", FALSE)
    /\ UNCHANGED selected
    /\ LineFrame

LinePop ==
    /\ Running /\ ~PopupVisible /\ LineNumberDispatch
    /\ Pressed({"Backspace"})
    /\ line_number' = Some(Pop(line_number[1]))
    /\ last' = Last("Backspace", "ok", FALSE)
    /\ UNCHANGED selected
    /\ LineFrame

DigitValue(c) ==
    CASE c = "0" -> 0 [] c = "1" -> 1 [] c = "2" -> 2 [] c = "3" -> 3
      [] c = "4" -> 4 [] c = "5" -> 5 [] c = "6" -> 6 [] c = "7" -> 7
      [] c = "8" -> 8 [] c = "9" -> 9

RECURSIVE Decimal(_)
Decimal(s) ==
    IF s = <<>> THEN 0
    ELSE 10 * Decimal(SubSeq(s, 1, Len(s) - 1)) + DigitValue(s[Len(s)])

\* a parse that reads the empty buffer as 0
ParseUsizeEmptyIsZero(s) == Some(Decimal(s))

\* str::parse::<usize> of a buffer of digits: Err on the empty buffer
ParseUsize(s) == IF s = <<>> THEN None ELSE Some(Decimal(s))

\* Ord::clamp; it asserts lo <= hi
Clamp(x, lo, hi) == Max(lo, Min(x, hi))

\* index.clamp(1, app.blame.len()) - 1
LineJumpIndex(index, len) == Clamp(index, 1, len) - 1

LineCommit ==
    /\ Running /\ ~PopupVisible /\ LineNumberDispatch
    /\ Pressed({"Enter"})
    /\ LET parsed == ParseUsize(line_number[1]) IN
          IF parsed = None
          THEN /\ last' = Last("Commit", "none", FALSE)
               /\ UNCHANGED <<selected, line_number>>
               /\ LineFrame
          ELSE IF Len(blame) < 1
          THEN Panic("Commit")
          ELSE /\ selected' = Some(LineJumpIndex(parsed[1], Len(blame)))
               /\ line_number' = None
               /\ last' = Last("Commit", "ok", FALSE)
               /\ LineFrame

LineIgnored ==
    /\ Running /\ ~PopupVisible /\ LineNumberDispatch
    /\ {key \in Keys : /\ ~IsCancel(key) /\ ~IsCtrl(key, "u")
                         /\ key.code \notin DigitChars \cup {"Backspace", "Enter"}} # {}
    /\ last' = Last("Ignored", "ok", FALSE)
    /\ UNCHANGED <<app, pc, build, start, committed, parser, origin>>


(***************************************************************************)
(* Browsing keys (terminal.rs 183-291).                                    *)
(***************************************************************************)
\* u16::MAX
U16Max == 65535

\* saturating_add_signed, for an unsigned type whose largest value is max
SatAddSigned(x, amount, max) ==
    IF amount >= 0
    THEN (IF x > max - amount THEN max ELSE x + amount)
    ELSE (IF x < -amount THEN 0 ELSE x + amount)

\* app.blame.len() - 1, as the release build computes it (it wraps)
LenMinus1(len) == IF len = 0 THEN UsizeMax ELSE len - 1
\* app.blame.len() - 1 overflows: the debug build panics
SubOverflows(len) == build = "debug" /\ len = 0

\* the amount each scrolling key passes to scroll()
ScrollAmount(key, term_height) ==
    CASE key.code \in {"j", "Down"} -> 1
      [] key.code \in {"k", "Up"} -> -1
      [] key.code \in {"d", "PageDown"} -> term_height \div 2
      [] key.code \in {"u", "PageUp"} -> -(term_height \div 2)

ScrollKeys == {"j", "Down", "k", "Up", "d", "PageDown", "u", "PageUp"}

\* u16::try_from(line_history.height()).unwrap() panics: the text has more
\* lines than a u16 holds
HeightOverflows(height) == height > U16Max

\* u16::try_from(line_history.height()).unwrap().saturating_sub(term_size.height)
PanelMax(height, term_height) == Max(0, height - term_height)

\* scroll(), panel open: the new line_history_scroll
ScrollPanel(scroll, amount, height, term_height) ==
    Clamp(SatAddSigned(scroll, amount, U16Max), 0, PanelMax(height, term_height))

\* scroll(), no panel: the new selection
ScrollSelect(sel, amount, len) ==
    IF sel = None THEN Some(0)
    ELSE Some(Clamp(SatAddSigned(sel[1], amount, UsizeMax), 0, LenMinus1(len)))

\* the model follows an out-of-range selection MaxOob steps from either end
WithinModel(sel, len) ==
    \/ sel = None
    \/ sel[1] <= Max(MaxOob, len)
    \/ sel[1] >= UsizeMax - MaxOob

BrowseFrame ==
    UNCHANGED <<blame, commit_stack, popup, search, line_number, pc, build,
                start, committed, parser, origin>>

Scroll ==
    /\ Running /\ Browsing
    /\ \E key \in Keys, term_height \in TermHeights :
          /\ key.code \in ScrollKeys
          /\ LET amount == ScrollAmount(key, term_height) IN
                IF right_panel # None /\ HeightOverflows(right_panel[1].height)
                THEN Panic("MoveSelection")
                ELSE IF right_panel # None
                THEN /\ line_history_scroll' =
                            ScrollPanel(line_history_scroll, amount,
                                        right_panel[1].height, term_height)
                     /\ last' = Last("MoveSelection", "panel", FALSE)
                     /\ UNCHANGED <<selected, right_panel>>
                     /\ BrowseFrame
                ELSE IF selected # None /\ SubOverflows(Len(blame))
                THEN Panic("MoveSelection")
                ELSE /\ selected' = ScrollSelect(selected, amount, Len(blame))
                     /\ WithinModel(selected', Len(blame))
                     /\ last' = Last("MoveSelection", "ok", FALSE)
                     /\ UNCHANGED <<right_panel, line_history_scroll>>
                     /\ BrowseFrame

JumpTop ==
    /\ Running /\ Browsing
    /\ Pressed({"g", "Home"})
    /\ IF right_panel # None
       THEN /\ line_history_scroll' = 0
            /\ last' = Last("JumpTop", "panel", FALSE)
            /\ UNCHANGED selected
       ELSE /\ selected' = Some(0)
            /\ last' = Last("JumpTop", "ok", FALSE)
            /\ UNCHANGED line_history_scroll
    /\ UNCHANGED right_panel
    /\ BrowseFrame

JumpBottom ==
    /\ Running /\ Browsing
    /\ \E key \in Keys, term_height \in TermHeights :
          /\ key.code \in {"G", "End"}
          /\ IF right_panel # None /\ HeightOverflows(right_panel[1].height)
             THEN Panic("JumpBottom")
             ELSE IF right_panel # None
             THEN /\ line_history_scroll' = PanelMax(right_panel[1].height, term_height)
                  /\ last' = Last("JumpBottom", "panel", FALSE)
                  /\ UNCHANGED <<selected, right_panel>>
                  /\ BrowseFrame
             ELSE IF SubOverflows(Len(blame))
             THEN Panic("JumpBottom")
             ELSE /\ selected' = Some(LenMinus1(Len(blame)))
                  /\ last' = Last("JumpBottom", "ok", FALSE)
                  /\ UNCHANGED <<right_panel, line_history_scroll>>
                  /\ BrowseFrame

BeginLineJump ==
    /\ Running /\ Browsing
    /\ Pressed({":"})
    /\ line_number' = Some(<<>>)
    /\ last' = Last("BeginLineJump", "ok", FALSE)
    /\ UNCHANGED <<blame, selected, commit_stack, right_panel,
                   line_history_scroll, popup, search, pc, build, start, committed, parser, origin>>

BeginSearch ==
    /\ Running /\ Browsing
    /\ Pressed({"/"})
    /\ search' = Some([editing |-> TRUE, query |-> <<>>])
    /\ last' = Last("BeginSearch", "ok", FALSE)
    /\ UNCHANGED <<blame, selected, commit_stack, right_panel,
                   line_history_scroll, popup, line_number, pc, build, start, committed, parser,
                   origin>>

\* n searches forward, N backward
RepeatIntent(forward) == IF forward THEN "RepeatForward" ELSE "RepeatBackward"

RepeatSearch ==
    /\ Running /\ Browsing
    /\ \E key \in Keys :
          /\ key.code \in {"n", "N"}
          /\ LET forward == key.code = "n" IN
                IF search = None
                THEN /\ last' = Last(RepeatIntent(forward), "none", FALSE)
                     /\ UNCHANGED selected
                     /\ UNCHANGED <<right_panel, line_history_scroll>>
                     /\ BrowseFrame
                ELSE IF HandleSearchPanics(blame, selected, forward)
                THEN Panic(RepeatIntent(forward))
                ELSE /\ selected' = HandleSearch(blame, search[1].query, selected, forward)
                     /\ last' = Last(RepeatIntent(forward), "ok", FALSE)
                     /\ UNCHANGED <<right_panel, line_history_scroll>>
                     /\ BrowseFrame

\* the Text a collaborator returned, with the request it answers
Panel(kind, commit, path, line, height) ==
    [kind |-> kind, commit |-> commit, path |-> path, line |-> line,
     height |-> height]

\* <enter>: git::show of the selected hunk's commit
ShowCommit ==
    /\ Running /\ Browsing
    /\ \E key \in Keys, height \in PanelHeights :
          /\ key.code = "Enter"
          /\ IF selected = None
             THEN /\ last' = Last("OpenSecondaryPanel", "none", FALSE)
                  /\ UNCHANGED <<selected, right_panel, line_history_scroll>>
                  /\ BrowseFrame
             ELSE IF selected[1] >= Len(blame)
             THEN Panic("OpenSecondaryPanel")
             ELSE /\ right_panel' =
                        Some(Panel("show", blame[selected[1] + 1].commit, "", 0, height))
                  /\ last' = Last("OpenSecondaryPanel", "ok", FALSE)
                  /\ UNCHANGED <<selected, line_history_scroll>>
                  /\ BrowseFrame

\* w: git::log_follow of the selected line at the top checkpoint
LineHistory ==
    /\ Running /\ Browsing
    /\ \E key \in Keys, height \in PanelHeights :
          /\ key.code = "w"
          /\ IF selected = None
             THEN /\ last' = Last("OpenSecondaryPanel", "none", FALSE)
                  /\ UNCHANGED right_panel
             ELSE /\ right_panel' =
                        Some(Panel("log", Top.commit, Top.path, selected[1], height))
                  /\ last' = Last("OpenSecondaryPanel", "ok", FALSE)
    /\ UNCHANGED <<selected, line_history_scroll>>
    /\ BrowseFrame

(***************************************************************************)
(* b: re-blame the selected line at the parent of its commit               *)
(* (terminal.rs 251-266), and B: undo it (terminal.rs 267-276).            *)
(***************************************************************************)
\* the path to blame: the hunk's own, else the top checkpoint's
ReblamePath(hunk, top) == IF hunk.path # None THEN hunk.path[1] ELSE top.path

\* mutant of ReblameSelect: the index is kept without the min
ReblameSelectUnclamped(index, len) == Some(index)

\* app.blame_state.select(Some(index.min(app.blame.len() - 1)))
ReblameSelect(index, len) == Some(Min(index, LenMinus1(len)))

\* mutant of Push: the checkpoint is pushed twice
PushTwice(stack, commit, path) ==
    Append(Append(stack, [commit |-> commit, path |-> path]),
           [commit |-> commit, path |-> path])

\* mutant of Push: the new checkpoint overwrites the top one
PushOverTop(stack, commit, path) ==
    Append(Pop(stack), [commit |-> commit, path |-> path])

\* app.commit_stack.push(CommitPath { commit: parent, path: line_path })
Push(stack, commit, path) == Append(stack, [commit |-> commit, path |-> path])

\* mutant of ReblameFail: the checkpoint is pushed before the call that fails
ReblameFailAfterPush(error, called) ==
    /\ popup' = Some(error)
    /\ commit_stack' = Append(commit_stack, Top)
    /\ last' = Last("ReblameSelected", "err", called)
    /\ UNCHANGED <<blame, selected, right_panel, line_history_scroll, search,
                   line_number, pc, build, start, committed, parser, origin>>

\* a `?` of the b arm returned Err before anything was assigned; run_app
\* turns the Err into the popup
ReblameFail(error, called) ==
    /\ popup' = Some(error)
    /\ last' = Last("ReblameSelected", "err", called)
    /\ UNCHANGED <<blame, selected, commit_stack, right_panel,
                   line_history_scroll, search, line_number, pc, build, start, committed, parser,
                   origin>>

ReblameSelected ==
    /\ Running /\ Browsing
    /\ Pressed({"b"})
    /\ \E resolve_ok \in BOOLEAN, blame_ok \in BOOLEAN :
          IF selected = None
          THEN /\ last' = Last("ReblameSelected", "none", FALSE)
               /\ UNCHANGED <<app, pc, build, start, committed, parser, origin>>
          ELSE IF selected[1] >= Len(blame)
          THEN Panic("ReblameSelected")
          ELSE
            LET index == selected[1]
                hunk == blame[index + 1]
                parent == IF resolve_ok THEN ParentOf(hunk.commit) ELSE None
            IN
            IF parent = None
            THEN ReblameFail("no parent", FALSE)
            ELSE
              LET line_path == ReblamePath(hunk, Top)
                  result == IF blame_ok THEN RepoBlame(line_path, parent[1]) ELSE None
              IN
              IF result = None
              THEN ReblameFail("blame failed", TRUE)
              ELSE IF SubOverflows(Len(result[1]))
              THEN /\ Panicked("ReblameSelected", TRUE)
                   /\ blame' = result[1]
                   /\ origin' = Some([commit |-> parent[1], path |-> line_path])
                   /\ UNCHANGED <<selected, commit_stack, right_panel,
                                  line_history_scroll, popup, search, line_number>>
              ELSE /\ blame' = result[1]
                   /\ selected' = ReblameSelect(index, Len(result[1]))
                   /\ commit_stack' = Push(commit_stack, parent[1], line_path)
                   /\ origin' = Some([commit |-> parent[1], path |-> line_path])
                   /\ last' = Last("ReblameSelected", "ok", TRUE)
                   /\ UNCHANGED <<right_panel, line_history_scroll, popup,
                                  search, line_number, pc, build, start, committed, parser>>

\* mutant of CanUndo: the bottom checkpoint can be popped too
CanUndoBottom(stack) == Len(stack) >= 1

\* if app.commit_stack.len() > 1
CanUndo(stack) == Len(stack) > 1

\* if let Some(index) = selected { select(Some(index.min(app.blame.len() - 1))) }
UndoSelect(sel, len) == IF sel = None THEN None ELSE Some(Min(sel[1], LenMinus1(len)))

\* git::blame(...)? of the B arm returned Err: the checkpoint is popped
\* already, the blame is not replaced; run_app turns the Err into the popup
UndoFail(popped) ==
    /\ commit_stack' = popped
    /\ popup' = Some("blame failed")
    /\ last' = Last("UndoReblame", "err", TRUE)
    /\ UNCHANGED <<blame, selected, right_panel, line_history_scroll, search,
                   line_number, pc, build, start, committed, parser, origin>>

UndoReblame ==
    /\ Running /\ Browsing
    /\ Pressed({"B"})
    /\ \E blame_ok \in BOOLEAN :
          IF ~CanUndo(commit_stack)
          THEN /\ last' = Last("UndoReblame", "none", FALSE)
               /\ UNCHANGED <<app, pc, build, start, committed, parser, origin>>
          ELSE
            LET popped == Pop(commit_stack) IN
            IF popped = <<>>
            THEN /\ Panicked("UndoReblame", FALSE)
                 /\ commit_stack' = popped
                 /\ UNCHANGED <<blame, selected, right_panel, line_history_scroll,
                                popup, search, line_number, origin>>
            ELSE
              LET commit_path == popped[Len(popped)]
                  result == IF blame_ok
                            THEN RepoBlame(commit_path.path, commit_path.commit)
                            ELSE None
              IN
              IF result = None
              THEN UndoFail(popped)
              ELSE IF selected # None /\ SubOverflows(Len(result[1]))
              THEN /\ Panicked("UndoReblame", TRUE)
                   /\ commit_stack' = popped
                   /\ blame' = result[1]
                   /\ origin' = Some(commit_path)
                   /\ UNCHANGED <<selected, right_panel, line_history_scroll,
                                  popup, search, line_number>>
              ELSE /\ commit_stack' = popped
                   /\ blame' = result[1]
                   /\ selected' = UndoSelect(selected, Len(result[1]))
                   /\ origin' = Some(commit_path)
                   /\ last' = Last("UndoReblame", "ok", TRUE)
                   /\ UNCHANGED <<right_panel, line_history_scroll, popup,
                                  search, line_number, pc, build, start, committed, parser>>

\* h: app.popup = Some(make_help_text())
ShowHelp ==
    /\ Running /\ Browsing
    /\ Pressed({"h"})
    /\ popup' = Some("help")
    /\ last' = Last("ShowHelp", "ok", FALSE)
    /\ UNCHANGED <<blame, selected, commit_stack, right_panel,
                   line_history_scroll, search, line_number, pc, build, start, committed, parser,
                   origin>>

\* q or esc that ends the session whether or not a panel is open
QuitEvenWithPanel ==
    /\ Running /\ Browsing
    /\ Pressed({"q", "Esc"})
    /\ pc' = "quit"
    /\ last' = Last("Quit", "quit", FALSE)
    /\ UNCHANGED <<blame, selected, commit_stack, right_panel,
                   line_history_scroll, popup, search, line_number, build,
                   start, committed, parser, origin>>

\* q or esc: close the panel if there is one, else return Ok(false)
QuitOrClose ==
    /\ Running /\ Browsing
    /\ Pressed({"q", "Esc"})
    /\ IF right_panel # None
       THEN /\ right_panel' = None
            /\ line_history_scroll' = 0
            /\ last' = Last("DismissOverlay", "ok", FALSE)
            /\ UNCHANGED pc
       ELSE /\ pc' = "quit"
            /\ last' = Last("Quit", "quit", FALSE)
            /\ UNCHANGED <<right_panel, line_history_scroll>>
    /\ UNCHANGED <<blame, selected, commit_stack, popup, search, line_number,
                   build, start, committed, parser, origin>>

BrowseKeys == ScrollKeys \cup {"g", "Home", "G", "End", ":", "/", "n", "N",
                               "Enter", "w", "b", "B", "h", "q", "Esc"}

BrowseIgnored ==
    /\ Running /\ Browsing
    /\ {key \in Keys : key.code \notin BrowseKeys} # {}
    /\ last' = Last("Ignored", "ok", FALSE)
    /\ UNCHANGED <<app, pc, build, start, committed, parser, origin>>

Next ==
    \/ Startup
    \/ DismissPopup
    \/ SearchCancel \/ SearchClear \/ SearchPush \/ SearchPop
    \/ SearchCommit \/ SearchIgnored
    \/ LineCancel \/ LineClear \/ LineDigit \/ LinePop
    \/ LineCommit \/ LineIgnored
    \/ Scroll \/ JumpTop \/ JumpBottom
    \/ BeginLineJump \/ BeginSearch \/ RepeatSearch
    \/ ShowCommit \/ LineHistory
    \/ ReblameSelected \/ UndoReblame
    \/ ShowHelp \/ QuitOrClose \/ BrowseIgnored

Spec == Init /\ [][Next]_vars

(***************************************************************************)
(* The porcelain parser (src/src/git_blame_porcelain.rs).  A text is a     *)
(* sequence of symbols: the separators " ", "\n" and "\t", digits, and     *)
(* words (a commit id, a field name, a value) that no parser looks into.   *)
(* A parser returns [ok, rest, out] the way nom returns IResult.           *)
(***************************************************************************)
SP == " "
NL == "\n"
TAB == "\t"

Failed == [ok |-> FALSE, rest |-> <<>>, out |-> <<>>]
Parsed(rest, out) == [ok |-> TRUE, rest |-> rest, out |-> out]

\* &input[n..]
Drop(s, n) == SubSeq(s, n + 1, Len(s))

\* the first position whose symbol is one of chars, Len(s) + 1 without one
FirstIn(s, chars) ==
    LET hits == {i \in 1..Len(s) : s[i] \in chars}
    IN IF hits = {} THEN Len(s) + 1 ELSE SetMin(hits)

\* the first position whose symbol is none of chars, Len(s) + 1 without one
FirstNotIn(s, chars) ==
    LET hits == {i \in 1..Len(s) : s[i] \notin chars}
    IN IF hits = {} THEN Len(s) + 1 ELSE SetMin(hits)

\* c.is_dec_digit()
DecDigits == {"0", "1", "2", "3", "4", "5", "6", "7", "8", "9"}
is_digit(c) == c \in DecDigits

\* c == '\n' || c == '\r'
LineEndings == {"\n", "\r"}
is_line_ending(c) == c \in LineEndings

\* nom tag
Tag(t, s) ==
    IF s # <<>> /\ s[1] = t THEN Parsed(Drop(s, 1), <<t>>) ELSE Failed

\* nom take_until1: up to the first t, which must exist and not come first
TakeUntil1(t, s) ==
    LET i == FirstIn(s, {t})
    IN IF i > Len(s) \/ i = 1 THEN Failed
       ELSE Parsed(Drop(s, i - 1), SubSeq(s, 1, i - 1))

\* nom take_while1: the longest prefix of symbols of chars, not empty
TakeWhile1(chars, s) ==
    LET i == FirstNotIn(s, chars)
    IN IF i = 1 THEN Failed ELSE Parsed(Drop(s, i - 1), SubSeq(s, 1, i - 1))

\* nom take_till: the longest prefix without a symbol of chars, possibly empty
TakeTill(chars, s) ==
    LET i == FirstIn(s, chars)
    IN Parsed(Drop(s, i - 1), SubSeq(s, 1, i - 1))

\* nom take_till1
TakeTill1(chars, s) ==
    LET r == TakeTill(chars, s)
    IN IF r.out = <<>> THEN Failed ELSE r

\* nom line_ending: "\n" or "\r\n"
LineEnding(s) ==
    IF s # <<>> /\ s[1] = "\n" THEN Parsed(Drop(s, 1), <<"\n">>)
    ELSE IF Len(s) >= 2 /\ s[1] = "\r" /\ s[2] = "\n"
    THEN Parsed(Drop(s, 2), <<"\r", "\n">>)
    ELSE Failed

\* a digit string without its leading zeros
StripZeros(s) == Drop(s, FirstNotIn(s, {"0"}) - 1)

\* a <= b for digit strings of one length
DigitsLeq(a, b) ==
    \/ a = b
    \/ \E i \in 1..Len(a) :
          /\ \A j \in 1..(i - 1) : a[j] = b[j]
          /\ DigitValue(a[i]) < DigitValue(b[i])

\* the number a digit string names is at most the one max names
Fits(s, max) ==
    LET z == StripZeros(s)
    IN Len(z) < Len(max) \/ (Len(z) = Len(max) /\ DigitsLeq(z, max))

I32MaxDigits == <<"2", "1", "4", "7", "4", "8", "3", "6", "4", "7">>
U64MaxDigits == <<"1", "8", "4", "4", "6", "7", "4", "4", "0", "7", "3", "7",
                  "0", "9", "5", "5", "1", "6", "1", "5">>

\* str::parse::<i32> of a string of digits
ParseI32(s) == IF Fits(s, I32MaxDigits) THEN Some(Decimal(s)) ELSE None

\* let mut parse_code = delimited(tab, take_till(is_line_ending), line_ending)
parse_code(s) ==
    LET t == Tag(TAB, s) IN
    IF ~t.ok THEN Failed ELSE
    LET c == TakeTill(LineEndings, t.rest) IN
    LET e == LineEnding(c.rest) IN
    IF ~e.ok THEN Failed ELSE Parsed(e.rest, c.out)

\* a header whose line number is read from the orig-line field
LineNoFromOrigLine(orig_line, final_line) == ParseI32(orig_line)

\* line_no: final_line.parse().unwrap(); None where the unwrap panics
LineNo(orig_line, final_line) == ParseI32(final_line)

\* a parser's Ok, its Err, or a panic inside it
Returned(status, rest, out) == [status |-> status, rest |-> rest, out |-> out]

\* parse_header: <commit> <orig-line> <final-line>[ <group-size>] line ending
parse_header(s) ==
    LET commit == TakeUntil1(SP, s) IN
    IF ~commit.ok THEN Returned("err", <<>>, <<>>) ELSE
    LET orig_line == TakeUntil1(SP, Drop(commit.rest, 1)) IN
    IF ~orig_line.ok THEN Returned("err", <<>>, <<>>) ELSE
    LET final_line == TakeWhile1(DecDigits, Drop(orig_line.rest, 1)) IN
    IF ~final_line.ok THEN Returned("err", <<>>, <<>>) ELSE
    LET space == Tag(SP, final_line.rest)
        digits == IF space.ok THEN TakeWhile1(DecDigits, space.rest) ELSE Failed
        group_size == IF digits.ok THEN Some(digits.out) ELSE None
        after == IF digits.ok THEN digits.rest ELSE final_line.rest
        ending == LineEnding(after)
    IN
    IF ~ending.ok THEN Returned("err", <<>>, <<>>) ELSE
    LET line_no == LineNo(orig_line.out, final_line.out)
        size == IF group_size = None THEN Some(1) ELSE ParseI32(group_size[1])
    IN
    IF line_no = None \/ size = None THEN Returned("panic", <<>>, <<>>)
    ELSE Returned("ok", ending.rest,
                  [commit |-> commit.out, line_no |-> line_no[1],
                   group_size |-> size[1]])

\* CommitInfo { author: "", commit_time: UNIX_EPOCH, path: None }; the time
\* is the canonical digit string of its seconds since the epoch
DefaultCommitInfo == [author |-> <<>>, commit_time |-> <<>>, path |-> None]

\* value.parse::<u64>() succeeds
ParsesU64(value) ==
    /\ \A i \in 1..Len(value) : is_digit(value[i])
    /\ Fits(value, U64MaxDigits)

\* let mut parse_line = (terminated(take_until1(" "), tag(" ")),
\*                       terminated(take_till1(is_line_ending), line_ending))
ParsedLine(ok, rest, field, value) ==
    [ok |-> ok, rest |-> rest, field |-> field, value |-> value]

parse_line_value(field, s) ==
    LET value == TakeTill1(LineEndings, s) IN
    IF ~value.ok THEN ParsedLine(FALSE, <<>>, <<>>, <<>>)
    ELSE LET ending == LineEnding(value.rest) IN
         ParsedLine(ending.ok, ending.rest, field, value.out)

parse_line(s) ==
    LET field == TakeUntil1(SP, s) IN
    IF ~field.ok THEN ParsedLine(FALSE, <<>>, <<>>, <<>>)
    ELSE parse_line_value(field.out, Drop(field.rest, 1))

\* the match on the field of a line: the CommitInfo it leaves, None where
\* the unwrap of the committer-time panics
SetField(ret, field, value) ==
    IF field = <<"author">> THEN Some([ret EXCEPT !.author = value])
    ELSE IF field = <<"committer-time">>
    THEN IF ParsesU64(value)
         THEN Some([ret EXCEPT !.commit_time = StripZeros(value)])
         ELSE None
    ELSE IF field = <<"filename">> THEN Some([ret EXCEPT !.path = Some(value)])
    ELSE Some(ret)

\* parse_commit_info: <field> <value> lines up to the first line that starts
\* with a tab; the end of the text before that line is a panic
RECURSIVE parse_commit_info_loop(_, _)
parse_commit_info_line(line, ret) ==
    IF ~line.ok THEN Returned("err", <<>>, <<>>)
    ELSE IF SetField(ret, line.field, line.value) = None
    THEN Returned("panic", <<>>, <<>>)
    ELSE parse_commit_info_loop(line.rest,
                                SetField(ret, line.field, line.value)[1])

parse_commit_info_loop(rem, ret) ==
    IF rem = <<>> THEN Returned("panic", <<>>, <<>>)
    ELSE IF rem[1] = TAB THEN Returned("ok", rem, ret)
    ELSE parse_commit_info_line(parse_line(rem), ret)

parse_commit_info(s) == parse_commit_info_loop(s, DefaultCommitInfo)

\* BlameLine { commit, line_num, code, info }; info is the index of its Rc
BlameLine(commit, line_num, code, info) ==
    [commit |-> commit, line_num |-> line_num, code |-> code, info |-> info]

(***************************************************************************)
(* The texts the parser is run on: what git blame --porcelain prints for a *)
(* file whose lines come in runs of one commit, the same with the line     *)
(* numbers starting elsewhere, and every prefix of such a text.            *)
(***************************************************************************)
\* most runs of lines in a blamed file
MaxGroups == 3
\* most lines in one run
MaxGroupSize == 2

CommitIds == {"A", "B"}
FirstLines == {1, 2}

DigitChar(n) == CHOOSE c \in DecDigits : DigitValue(c) = n

\* the decimal digits of a number
RECURSIVE Digits(_)
Digits(n) ==
    IF n < 10 THEN <<DigitChar(n)>>
    ELSE Digits(n \div 10) \o <<DigitChar(n % 10)>>

\* the content of the line with this number: every second line is empty
CodeText(line_no) == IF line_no % 2 = 0 THEN <<>> ELSE <<"x", SP, "y">>

\* the block git prints the first time it shows a commit; B is a boundary
\* commit
InfoBlock(commit) ==
    <<"author", SP, IF commit = "A" THEN "ann" ELSE "bob", NL,
      "author-time", SP, "5", NL,
      "committer-time", SP, "0", IF commit = "A" THEN "7" ELSE "8", NL,
      "summary", SP, "fix", SP, "it", NL>>
    \o (IF commit = "B" THEN <<"boundary", NL>> ELSE <<>>)
    \o <<"filename", SP, IF commit = "A" THEN "f" ELSE "g", NL>>

\* the header of a line; the first line of a run carries the run's size
HeaderLine(commit, line_no, size) ==
    <<commit, SP>> \o Digits(line_no + 1) \o <<SP>> \o Digits(line_no)
    \o (IF size = 0 THEN <<>> ELSE <<SP>> \o Digits(size)) \o <<NL>>

CodeLine(line_no) == <<TAB>> \o CodeText(line_no) \o <<NL>>

\* the lines after the first of a run
RECURSIVE RestOfGroup(_, _, _)
RestOfGroup(commit, line_no, more) ==
    IF more = 0 THEN <<>>
    ELSE HeaderLine(commit, line_no, 0) \o CodeLine(line_no)
         \o RestOfGroup(commit, line_no + 1, more - 1)

\* the filename line of a commit
FilenameLine(commit) == <<"filename", SP, IF commit = "A" THEN "f" ELSE "g", NL>>

\* the porcelain text of the runs, numbered from line_no on; git repeats the
\* filename line in every run of a commit that touched the file under more
\* than one path
RECURSIVE Render(_, _, _, _)
Render(groups, line_no, seen, renamed) ==
    IF groups = <<>> THEN <<>>
    ELSE LET g == Head(groups) IN
         HeaderLine(g.commit, line_no, g.size)
         \o (IF g.commit \notin seen THEN InfoBlock(g.commit)
             ELSE IF g.commit \in renamed THEN FilenameLine(g.commit)
             ELSE <<>>)
         \o CodeLine(line_no)
         \o RestOfGroup(g.commit, line_no + 1, g.size - 1)
         \o Render(Tail(groups), line_no + g.size, seen \cup {g.commit}, renamed)

Group == [commit : CommitIds, size : 1..MaxGroupSize]
Blames == UNION {[1..n -> Group] : n \in 0..MaxGroups}
Renamed == {{}, {"B"}}

\* what git prints for the files of the model
GitOutputs == {Render(b, 1, {}, r) : b \in Blames, r \in Renamed}

\* the same texts with the lines numbered from elsewhere
Renumbered == {Render(b, first, {}, {}) : b \in Blames, first \in FirstLines}

\* the texts cut off anywhere
Truncated ==
    UNION {{SubSeq(text, 1, n) : n \in 0..Len(text)} :
              text \in {Render(b, 1, {}, {}) : b \in Blames}}

\* texts of one-line runs whose headers carry no size, as the grammar allows
RECURSIVE RenderUnsized(_, _, _)
RenderUnsized(ids, line_no, seen) ==
    IF ids = <<>> THEN <<>>
    ELSE HeaderLine(Head(ids), line_no, 0)
         \o (IF Head(ids) \notin seen THEN InfoBlock(Head(ids)) ELSE <<>>)
         \o CodeLine(line_no)
         \o RenderUnsized(Tail(ids), line_no + 1, seen \cup {Head(ids)})

Singles == UNION {[1..n -> CommitIds] : n \in 1..MaxGroups}
Unsized == {RenderUnsized(ids, 1, {}) : ids \in Singles}

Inputs == GitOutputs \cup Renumbered \cup Truncated \cup Unsized

\* no session is running
NoSession ==
    /\ blame = <<>> /\ selected = None /\ commit_stack = <<>>
    /\ right_panel = None /\ line_history_scroll = 0 /\ popup = None
    /\ search = None /\ line_number = None /\ pc = "none"
    /\ build = "debug" /\ start = None /\ committed = None /\ origin = None
    /\ last = None

session == <<app, pc, build, start, committed, origin, last>>

\* the locals of a turn of the while loop before its header is read
NoLocals == [header |-> <<>>, rc |-> 0, code |-> <<>>, more |-> 0]

\* parse_blame_porcelain(input) up to the first test of the while loop
ParseInit ==
    /\ NoSession
    /\ input \in Inputs
    /\ remaining = input
    /\ hunks = <<>>
    /\ commits = <<>>
    /\ rcs = <<>>
    /\ locals = NoLocals
    /\ parse_pc = "while"

\* the parser stops with an Err or a panic; its locals are dropped
ParseStops(how) ==
    /\ parse_pc' = how
    /\ UNCHANGED <<input, remaining, hunks, commits, rcs, locals, session>>

\* lines 41-44: the header of the turn
ParseHeader ==
    /\ parse_pc = "while"
    /\ remaining # <<>>
    /\ LET header == parse_header(remaining) IN
          IF header.status # "ok" THEN ParseStops(header.status)
          ELSE /\ remaining' = header.rest
               /\ locals' = [NoLocals EXCEPT !.header = header.out]
               /\ parse_pc' = "entry"
               /\ UNCHANGED <<input, hunks, commits, rcs, session>>

\* a map that never finds an entry
NeverOccupied(map, commit) == FALSE

\* HashMap::entry: the entry of the key is occupied
Occupied(map, commit) == commit \in DOMAIN map

\* lines 46-50: commits.entry(header.commit).or_insert_with(..): the Rc of a
\* commit seen before, or the commit-info block parsed into a new Rc
CommitEntry ==
    /\ parse_pc = "entry"
    /\ IF Occupied(commits, locals.header.commit)
       THEN /\ locals' = [locals EXCEPT !.rc = commits[locals.header.commit]]
            /\ parse_pc' = "code"
            /\ UNCHANGED <<input, remaining, hunks, commits, rcs, session>>
       ELSE LET info == parse_commit_info(remaining) IN
            IF info.status # "ok" THEN ParseStops("panic")
            ELSE /\ remaining' = info.rest
                 /\ rcs' = Append(rcs, info.out)
                 /\ commits' = commits @@ (locals.header.commit :> Len(rcs) + 1)
                 /\ locals' = [locals EXCEPT !.rc = Len(rcs) + 1]
                 /\ parse_pc' = "code"
                 /\ UNCHANGED <<input, hunks, session>>

\* lines 52-54: the first code line of the hunk
FirstCode ==
    /\ parse_pc = "code"
    /\ LET code_line == parse_code(remaining) IN
          IF ~code_line.ok THEN ParseStops("err")
          ELSE /\ remaining' = code_line.rest
               /\ locals' = [locals EXCEPT !.code = <<code_line.out>>,
                                           !.more = locals.header.group_size - 1]
               /\ parse_pc' = "group"
               /\ UNCHANGED <<input, hunks, commits, rcs, session>>

\* a push that puts the line in front of the lines read before it
PushFront(code, line) == <<line>> \o code

\* code.push(code_line)
PushCode(code, line) == Append(code, line)

\* the header and the code line of one more line of the group
GroupLineStep(header) ==
    IF header.status # "ok" THEN ParseStops(header.status)
    ELSE LET code_line == parse_code(header.rest) IN
         IF ~code_line.ok THEN ParseStops("err")
         ELSE /\ remaining' = code_line.rest
              /\ locals' = [locals EXCEPT !.code = PushCode(@, code_line.out),
                                          !.more = @ - 1]
              /\ UNCHANGED <<input, hunks, commits, rcs, parse_pc, session>>

\* lines 56-64: for _ in 1..header.group_size
GroupLine ==
    /\ parse_pc = "group"
    /\ locals.more > 0
    /\ GroupLineStep(parse_header(remaining))

\* lines 66-71: hunks.push(BlameLine { .. }), and back to the while test
PushHunk ==
    /\ parse_pc = "group"
    /\ locals.more <= 0
    /\ hunks' = Append(hunks, BlameLine(locals.header.commit,
                                        locals.header.line_no, locals.code,
                                        locals.rc))
    /\ locals' = NoLocals
    /\ parse_pc' = "while"
    /\ UNCHANGED <<input, remaining, commits, rcs, session>>

\* the loop ends: Ok(hunks)
ParseReturn ==
    /\ parse_pc = "while"
    /\ remaining = <<>>
    /\ parse_pc' = "ok"
    /\ UNCHANGED <<input, remaining, hunks, commits, rcs, locals, session>>

ParseNext ==
    \/ ParseHeader
    \/ CommitEntry
    \/ FirstCode
    \/ GroupLine
    \/ PushHunk
    \/ ParseReturn

SpecParse == ParseInit /\ [][ParseNext]_vars

(***************************************************************************)
(* Properties.                                                             *)
(***************************************************************************)
ReblameFailed(l) == l.intent = "ReblameSelected" /\ l.outcome = "err"
UndoFailed(l) == l.intent = "UndoReblame" /\ l.outcome = "err"
InRange(sel, len) == sel # None /\ sel[1] >= 0 /\ sel[1] < len

\* C1: a re-blame that fails (no parent commit, or the blame collaborator
\* fails) leaves the Blame Model, the selection and the checkpoint stack as
\* they were, the session goes on, the error is the popup, and the key after
\* it only dismisses the popup.
C1_ReblameFailureRecoverable ==
    [][/\ ReblameFailed(last') =>
            /\ blame' = blame
            /\ selected' = selected
            /\ commit_stack' = commit_stack
            /\ pc' = "running"
            /\ popup' # None
       /\ ReblameFailed(last) =>
            /\ popup # None
            /\ popup' = None
            /\ pc' = "running"]_vars

\* C1 witness: the re-blame of a line of the root commit failed
C1_Witness ==
    /\ ReblameFailed(last)
    /\ popup = Some("no parent")
    /\ InRange(selected, Len(blame))
    /\ ParentOf(blame[selected[1] + 1].commit) = None

\* C2: an undo whose blame fails leaves the checkpoint stack, the Blame Model
\* and the selection as they were, and the error is the popup.
C2_UndoFailureKeepsView ==
    [][UndoFailed(last') =>
            /\ commit_stack' = commit_stack
            /\ blame' = blame
            /\ selected' = selected
            /\ popup' # None]_vars

\* C3: while the session runs, the top of the checkpoint stack is the
\* (commit, path) the loaded Blame Model was produced for.
C3_TopIsBlameOrigin == pc = "running" => origin = Some(Top)

\* C4: the checkpoint stack starts as the one starting entry, is never empty,
\* and its bottom entry stays the starting entry.
C4_StackNeverEmpty ==
    /\ Len(commit_stack) >= 1
    /\ commit_stack[1] = start
    /\ pc = "new" => commit_stack = <<start>>

\* C4 witness: a failed undo popped the stack down to its bottom entry
C4_Witness ==
    /\ UndoFailed(last)
    /\ Len(last.stack0) = 2
    /\ commit_stack = <<start>>

\* C5: a successful re-blame followed at once by a successful undo gives the
\* checkpoint stack the length and the top it had before the re-blame, and
\* the loaded Blame Model is the one for that top.
C5_ReblameUndoSymmetry ==
    [][(/\ last.intent = "ReblameSelected" /\ last.outcome = "ok"
        /\ last'.intent = "UndoReblame" /\ last'.outcome = "ok") =>
            /\ Len(commit_stack') = Len(last.stack0)
            /\ commit_stack'[Len(commit_stack')] = last.stack0[Len(last.stack0)]
            /\ origin' = Some(commit_stack'[Len(commit_stack')])
            /\ Some(blame') = RepoBlame(commit_stack'[Len(commit_stack')].path,
                                        commit_stack'[Len(commit_stack')].commit)]_vars

\* C5 witness: an undo succeeded right after a re-blame succeeded
C5_Witness ==
    /\ last.intent = "UndoReblame" /\ last.outcome = "ok"
    /\ last.chained
    /\ Len(commit_stack) >= 2

\* C6: an undo on a single-entry checkpoint stack changes nothing (stack,
\* Blame Model, selection, panel, popup) and does not run the blame
\* collaborator.
C6_UndoAtOriginIsNoop ==
    [][(last'.intent = "UndoReblame" /\ Len(commit_stack) = 1) =>
            /\ UNCHANGED <<commit_stack, blame, selected, right_panel,
                           line_history_scroll, popup>>
            /\ ~last'.called
            /\ pc' = "running"]_vars

\* C6 witness: B was pressed on a single-entry stack, with a line selected
C6_Witness ==
    /\ last.intent = "UndoReblame" /\ last.outcome = "none"
    /\ Len(commit_stack) = 1
    /\ Len(last.stack0) = 1
    /\ selected # None
    /\ pc = "running"

\* C7: with no panel open a move over a list of N >= 1 lines selects an index
\* in [0, N-1] (0 if nothing was selected), and over an empty list an unset
\* selection stays unset.
C7_SelectionClamp ==
    [][(/\ last'.intent = "MoveSelection"
        /\ last'.outcome # "panic"
        /\ right_panel = None) =>
            IF Len(blame) >= 1
            THEN /\ InRange(selected', Len(blame))
                 /\ selected = None => selected' = Some(0)
            ELSE selected = None => selected' = None]_vars

\* C8: while the session runs with a non-empty Blame Model, the selection is
\* unset or an index of the model.
C8_SelectionInRange ==
    (pc = "running" /\ Len(blame) > 0) =>
        (selected = None \/ InRange(selected, Len(blame)))

\* C8 witness: a re-blame replaced four lines by three and the selection,
\* which was on the fourth, is on the third
C8_Witness ==
    /\ last.intent = "ReblameSelected" /\ last.outcome = "ok"
    /\ origin = Some([commit |-> "c3", path |-> "new"])
    /\ Len(blame) = 3
    /\ selected = Some(2)

\* C9: a search buffer being edited and a line-number buffer are never both
\* present.
C9_OneEntryMode == ~(SearchEditing /\ line_number # None)

EntryIntents == {"AppendChar", "Backspace", "ClearBuffer", "Cancel", "Commit"}

\* C10: with no popup and a search being edited or a line-number buffer
\* present, a key that is not text entry, Cancel or Commit changes neither
\* selection, Blame Model, checkpoint stack nor panel, opens no other mode and
\* does not end the session.
C10_EntryModeDispatch ==
    [][(/\ pc = "running"
        /\ popup = None
        /\ (SearchEditing \/ line_number # None)
        /\ last'.intent \notin EntryIntents) =>
            /\ UNCHANGED <<selected, blame, commit_stack, right_panel>>
            /\ search' = search
            /\ line_number' = line_number
            /\ pc' = "running"]_vars

\* C11: while a popup is visible, whatever key arrives only dismisses the
\* popup: search mode and query, line-number buffer, selection, blame list,
\* commit stack, panel and its scroll stay as they were and the session goes
\* on, whatever is underneath.
C11_PopupPriority ==
    [][(pc = "running" /\ popup # None) =>
          /\ popup' = None
          /\ pc' = "running"
          /\ UNCHANGED <<search, line_number, selected, blame, commit_stack,
                         right_panel, line_history_scroll>>]_vars

\* a popup was dismissed over an open, scrolled panel, a selection and a
\* re-blamed view
C11_Witness ==
    /\ last.intent = "Dismiss"
    /\ popup = None /\ pc = "running"
    /\ right_panel # None /\ line_history_scroll > 0
    /\ selected # None
    /\ Len(commit_stack) > 1

\* C12: no failure inside the session is fatal: whatever keys arrive and
\* whatever the collaborators return (a blame of zero hunks included), the
\* session ends only by Quit pressed with no panel open; nothing aborts it.
C12_OnlyQuitEnds ==
    pc \in {"quit", "panicked"} =>
        /\ pc = "quit"
        /\ last.intent = "Quit"
        /\ right_panel = None

\* the indices of the lines that contain the query
Matches(bl, query) == {i \in 0..(Len(bl) - 1) : Contains(bl[i + 1].line, query)}

\* what the selection has to be after a search without wraparound
SearchTarget(bl, query, sel, forward) ==
    LET hits == IF forward
                THEN {i \in Matches(bl, query) : sel = None \/ i > sel[1]}
                ELSE {i \in Matches(bl, query) : sel # None /\ i < sel[1]}
    IN IF hits = {} THEN sel
       ELSE Some(IF forward THEN SetMin(hits) ELSE SetMax(hits))

RepeatIntents == {"RepeatForward", "RepeatBackward"}

\* C13: a search does not wrap around: forward it selects the first match
\* after the selection (from index 0 when nothing is selected), backward the
\* last match before it, and without such a match the selection stays and
\* neither a popup nor an error comes up.
C13_SearchNoWraparound ==
    [][/\ (pc = "running" /\ popup = None /\ SearchEditing
           /\ last'.intent = "Commit") =>
              /\ selected' = SearchTarget(blame, search[1].query, selected, TRUE)
              /\ popup' = None /\ pc' = "running"
       /\ (pc = "running" /\ search # None
           /\ last'.intent \in RepeatIntents) =>
              /\ selected' = SearchTarget(blame, search[1].query, selected,
                                          last'.intent = "RepeatForward")
              /\ popup' = None /\ pc' = "running"]_vars

\* C14: Enter in the search prompt runs one forward search from the
\* selection, leaves the prompt (the next key is a browsing key) and keeps
\* the query, and n or N afterwards search for exactly that query; n or N
\* when no query was ever committed change nothing.
C14_CommitThenRepeat ==
    [][/\ (pc = "running" /\ popup = None /\ SearchEditing
           /\ last'.intent = "Commit") =>
              /\ selected' = SearchTarget(blame, search[1].query, selected, TRUE)
              /\ search' = Some([editing |-> FALSE, query |-> search[1].query])
              /\ Browsing'
       /\ (pc = "running" /\ search # None
           /\ last'.intent \in RepeatIntents) =>
              /\ committed = Some(search[1].query)
              /\ last'.outcome = "ok" =>
                    selected' = SearchTarget(blame, committed[1], selected,
                                             last'.intent = "RepeatForward")
              /\ UNCHANGED search
       /\ (pc = "running" /\ committed = None
           /\ last'.intent \in RepeatIntents) =>
              UNCHANGED app]_vars

\* N has just moved the selection back to a line that contains the
\* committed, non-empty query
C14_Witness ==
    /\ last.intent = "RepeatBackward" /\ last.outcome = "ok"
    /\ committed # None /\ committed[1] # <<>>
    /\ search = Some([editing |-> FALSE, query |-> committed[1]])
    /\ selected # None /\ selected[1] < Len(blame) - 1
    /\ Contains(blame[selected[1] + 1].line, committed[1])

\* C15: the last committed query survives leaving the modes: once a query
\* was committed, whatever keys follow without committing another one
\* (opening the search prompt and cancelling it, the line-number prompt),
\* n and N still search for that query.
C15_QueryPersists ==
    [][(pc = "running" /\ committed # None
        /\ last'.intent \in RepeatIntents) =>
           /\ search # None
           /\ search[1].query = committed[1]
           /\ last'.outcome = "ok" =>
                 selected' = SearchTarget(blame, committed[1], selected,
                                          last'.intent = "RepeatForward")]_vars

\* C16: Enter or w on a selected line store the text they fetched as the
\* panel with the panel's scroll offset back at 0, also when a panel was
\* open and scrolled before.
C16_OpenPanelResetsScroll ==
    [][(pc = "running" /\ last'.intent = "OpenSecondaryPanel"
        /\ last'.outcome = "ok") =>
           /\ right_panel' # None
           /\ line_history_scroll' = 0]_vars

\* C17: q or Esc while a panel is open close the panel and put its scroll
\* offset back to 0; the session goes on and commit stack, blame list and
\* selection stay as they were.  Only without a panel do they end the
\* session.
C17_CancelClosesPanelFirst ==
    [][(pc = "running" /\ last'.intent \in {"DismissOverlay", "Quit"}) =>
          IF right_panel # None
          THEN /\ right_panel' = None
               /\ line_history_scroll' = 0
               /\ pc' = "running"
               /\ UNCHANGED <<commit_stack, blame, selected>>
          ELSE pc' = "quit"]_vars

\* a panel was closed over a re-blamed view with a selection
C17_Witness ==
    /\ last.intent = "DismissOverlay"
    /\ pc = "running"
    /\ right_panel = None /\ line_history_scroll = 0
    /\ selected # None
    /\ Len(commit_stack) > 1

\* C18: Enter in the line-number prompt on a buffer that is not a number
\* (the empty buffer) is ignored without a word: selection and buffer stay
\* as they were, no popup comes up and the prompt stays active.
C18_UnparsableLineIgnored ==
    [][(pc = "running" /\ popup = None /\ LineNumberDispatch
        /\ line_number[1] = <<>> /\ last'.intent = "Commit") =>
           /\ UNCHANGED app
           /\ pc' = "running"
           /\ LineNumberDispatch']_vars

\* Enter was pressed on the empty buffer, over a selection
C18_Witness ==
    /\ last.intent = "Commit" /\ last.outcome = "none"
    /\ pc = "running"
    /\ line_number = Some(<<>>) /\ search = None
    /\ selected # None /\ blame # <<>>

\* the lines of a text that start with a tab
TabLines(text) ==
    {i \in 1..Len(text) : text[i] = TAB /\ (i = 1 \/ text[i - 1] = NL)}

\* code.len() summed over the hunks
RECURSIVE CodeLineCount(_)
CodeLineCount(hs) ==
    IF hs = <<>> THEN 0 ELSE Len(Head(hs).code) + CodeLineCount(Tail(hs))

\* the hunks start at line 1 and each starts where the one before it ends
ContiguousFromOne(hs) ==
    /\ hs # <<>> => hs[1].line_num = 1
    /\ \A i \in 2..Len(hs) :
          hs[i].line_num = hs[i - 1].line_num + Len(hs[i - 1].code)

\* C19 as claimed: whenever the parse succeeds, the hunks hold as many code
\* lines as the text has lines that start with a tab, and their line numbers
\* run on from 1 without a gap.
C19_GroupingOfAnyInput ==
    parse_pc = "ok" =>
        /\ CodeLineCount(hunks) = Cardinality(TabLines(input))
        /\ ContiguousFromOne(hunks)

\* C19 amended: the same for the texts git blame --porcelain prints for a
\* file, whose headers number the lines from 1 on: whenever the parse of
\* such a text succeeds, the hunks hold as many code lines as the text has
\* lines that start with a tab, and their line numbers run on from 1
\* without a gap.
C19_GroupingOfGitOutput ==
    (input \in GitOutputs /\ parse_pc = "ok") =>
        /\ CodeLineCount(hunks) = Cardinality(TabLines(input))
        /\ ContiguousFromOne(hunks)

\* a text of git with three runs, one of them of two lines, was parsed
C19_Witness ==
    /\ parse_pc = "ok"
    /\ input \in GitOutputs
    /\ Len(hunks) = 3
    /\ \E i \in 1..3 : Len(hunks[i].code) = 2

\* hunks of one commit hold one and the same Rc, the one the map has for it
SharedInfo(hs, map, allocs) ==
    /\ \A i, j \in 1..Len(hs) :
          hs[i].commit = hs[j].commit => hs[i].info = hs[j].info
    /\ \A i \in 1..Len(hs) :
          /\ hs[i].commit \in DOMAIN map
          /\ hs[i].info = map[hs[i].commit]
          /\ hs[i].info \in 1..Len(allocs)
    /\ Cardinality(DOMAIN map) = Len(allocs)

\* C20: in a parse any two hunks of one commit id share one CommitInfo
\* instance; it is made once, when the id is met for the first time, which
\* is the only time a commit-info block is read, and no second copy is made.
C20_Dedup ==
    [][/\ SharedInfo(hunks', commits', rcs')
       /\ rcs' # rcs =>
             /\ parse_pc = "entry"
             /\ locals.header.commit \notin DOMAIN commits
             /\ Len(rcs') = Len(rcs) + 1
       /\ (parse_pc = "entry" /\ locals.header.commit \in DOMAIN commits) =>
             /\ remaining' = remaining
             /\ rcs' = rcs /\ commits' = commits]_vars

\* a parse returned three hunks, the first and the third of one commit and
\* the second of another, out of two instances
C20_Witness ==
    /\ parse_pc = "ok"
    /\ Len(hunks) = 3
    /\ hunks[1].commit = hunks[3].commit
    /\ hunks[1].commit # hunks[2].commit
    /\ hunks[1].info = hunks[3].info
    /\ Len(rcs) = 2

\* C21: a text that is malformed or cut short is answered with an error
\* value and never with a crash: whatever the text, the parse ends with
\* Ok or with Err.
C21_MalformedIsErrorValue ==
    parse_pc \in {"ok", "err", "panic"} => parse_pc \in {"ok", "err"}

\* C22: a re-blame that succeeds with index i selected loads the Blame Model
\* of (parent of the selected line's commit, path), the path being the
\* line's own when it has one and the top checkpoint's otherwise, pushes
\* exactly that pair so that the stack grows by one, and selects
\* min(i, new length - 1).
C22_ReblameReplacesAndPushes ==
    [][(last'.intent = "ReblameSelected" /\ last'.outcome = "ok") =>
            LET i == selected[1]
                hunk == blame[i + 1]
                parent == ParentOf(hunk.commit)[1]
                path == IF hunk.path # None THEN hunk.path[1] ELSE Top.path
            IN  /\ Some(blame') = RepoBlame(path, parent)
                /\ commit_stack' =
                        Append(commit_stack, [commit |-> parent, path |-> path])
                /\ Len(commit_stack') = Len(commit_stack) + 1
                /\ selected' = Some(Min(i, Len(blame') - 1))]_vars

\* the deltas a vertical move passes to the panel in a terminal of the
\* given height: one line or half a page, up or down
PanelDeltas(term_height) ==
    {1, -1, term_height \div 2, -(term_height \div 2)}

\* C23: while a secondary panel is open a vertical movement (a move by one
\* line or half a page, JumpTop, JumpBottom) is applied to the panel: the
\* selection of the main list stays, and the scroll offset becomes 0 for
\* JumpTop, max(0, content height - viewport height) for JumpBottom, and
\* the old offset plus the delta clamped into [0, that maximum] for a move.
C23_PanelScrollInRange ==
    [][(/\ right_panel # None
        /\ last'.intent \in {"MoveSelection", "JumpTop", "JumpBottom"}) =>
            /\ last'.outcome = "panel"
            /\ pc' = "running"
            /\ selected' = selected
            /\ LET content == right_panel[1].height IN
               CASE last'.intent = "JumpTop" -> line_history_scroll' = 0
                 [] last'.intent = "JumpBottom" ->
                       \E viewport \in TermHeights :
                           line_history_scroll' = Max(0, content - viewport)
                 [] last'.intent = "MoveSelection" ->
                       \E viewport \in TermHeights :
                           \E delta \in PanelDeltas(viewport) :
                               line_history_scroll' =
                                   Max(0, Min(line_history_scroll + delta,
                                              Max(0, content - viewport)))]_vars

\* the code lines of n lines numbered from line_no on
RECURSIVE ExpectedCode(_, _)
ExpectedCode(line_no, n) ==
    IF n = 0 THEN <<>>
    ELSE <<CodeText(line_no)>> \o ExpectedCode(line_no + 1, n - 1)

\* commit, line number and code of the hunks of the runs, in the order of
\* the runs
RECURSIVE ExpectedHunks(_, _)
ExpectedHunks(groups, line_no) ==
    IF groups = <<>> THEN <<>>
    ELSE LET g == Head(groups) IN
         <<[commit |-> <<g.commit>>, line_num |-> line_no,
            code |-> ExpectedCode(line_no, g.size)]>>
         \o ExpectedHunks(Tail(groups), line_no + g.size)

\* the hunks without their commit info
Shape(hs) ==
    [i \in 1..Len(hs) |->
        [commit |-> hs[i].commit, line_num |-> hs[i].line_num,
         code |-> hs[i].code]]

\* one-line runs of the commits
AsGroups(ids) == [i \in 1..Len(ids) |-> [commit |-> ids[i], size |-> 1]]

\* the runs the hunks stand for: their commits and their numbers of lines
RunsOf(hs) ==
    [i \in 1..Len(hs) |-> [commit |-> hs[i].commit[1], size |-> Len(hs[i].code)]]

\* the commits of the hunks
IdsOf(hs) == [i \in 1..Len(hs) |-> hs[i].commit[1]]

\* the line number of the first hunk
FirstOf(hs) == IF hs = <<>> THEN 1 ELSE hs[1].line_num

\* C24: a header gives the commit id, the final-line number and the group
\* size, 1 when the header has none; for a header of size N the parser
\* consumes N header and code pairs and returns one hunk whose line number
\* is the first header's final-line and whose code is the N code lines in
\* the order of the text, empty ones kept; the hunks come in the order of
\* the text. So a text of runs parses, the runs of its hunks are the runs
\* it was written from, and the hunks are exactly the hunks of those runs.
C24_GroupSizeGrouping ==
    /\ parse_pc \in {"err", "panic"} => input \notin Renumbered \cup Unsized
    /\ (parse_pc = "ok" /\ input \in Renumbered) =>
          /\ input = Render(RunsOf(hunks), FirstOf(hunks), {}, {})
          /\ Shape(hunks) = ExpectedHunks(RunsOf(hunks), FirstOf(hunks))
    /\ (parse_pc = "ok" /\ input \in Unsized) =>
          /\ input = RenderUnsized(IdsOf(hunks), 1, {})
          /\ Shape(hunks) = ExpectedHunks(AsGroups(IdsOf(hunks)), 1)

\* C24 witness: a run of two lines, the second one empty, then a run of one
\* line, parsed into two hunks
C24_Witness ==
    /\ parse_pc = "ok"
    /\ input \in Renumbered
    /\ Len(hunks) = 2
    /\ hunks[1].line_num = 1
    /\ hunks[1].code = <<CodeText(1), <<>>>>
    /\ hunks[2].line_num = 3
    /\ hunks[2].code = <<CodeText(3)>>

\* C24 witness for a header without a size: two such lines gave two hunks
C24_UnsizedReached ==
    /\ parse_pc = "ok"
    /\ input \in Unsized
    /\ input \notin Renumbered
    /\ Len(hunks) = 2
    /\ Len(hunks[2].code) = 1

\* what the block of a commit says: its author, its committer-time as a
\* number, and its filename
ExpectedInfo(commit) ==
    [author |-> <<IF commit = "A" THEN "ann" ELSE "bob">>,
     commit_time |-> <<IF commit = "A" THEN "7" ELSE "8">>,
     path |-> Some(<<IF commit = "A" THEN "f" ELSE "g">>)]

\* C25: the block parser consumes the lines of the block up to the first
\* line that starts with a tab and leaves that line at the start of the
\* remaining text; the result has the author of the author line, the time
\* of the committer-time line (not of author-time) and the path of the
\* filename line, and no other line of the block changes it or is an error.
C25_CommitInfoDecoding ==
    [][(/\ parse_pc = "entry" /\ ~Occupied(commits, locals.header.commit)
        /\ parse_pc' = "code") =>
            /\ LET c == locals.header.commit[1]
                   block == SubSeq(remaining, 1, Len(remaining) - Len(remaining'))
               IN  /\ remaining = block \o remaining'
                   /\ block = InfoBlock(c)
                   /\ remaining' # <<>> /\ remaining'[1] = TAB
                   /\ rcs'[Len(rcs')] = ExpectedInfo(c)]_vars

====
